---- MODULE Spec2Model ----
(***************************************************************************)
(* Model of scripts/tools/topology.py: the principal expander              *)
(* (expand_role_users), the authorization renderer (build_nats_authz) and  *)
(* the two commands of main() that run them.                               *)
(*                                                                         *)
(* Strings are sequences of code points, so that sorted() (code-point      *)
(* lexicographic order), string concatenation and the quoting function q   *)
(* are computed, not assumed.  A format template is a sequence of tokens,  *)
(* each a literal piece or a replacement field {name}.  An optional key of *)
(* the configuration document is a sequence of length 0 (absent) or 1.     *)
(***************************************************************************)
EXTENDS Naturals, Sequences, FiniteSets, TLC

VARIABLES cfg, cmd, pc, exc, principals, users, out, val, lit

vars == <<cfg, cmd, pc, exc, principals, users, out, val, lit>>

(***************************************************************************)
(* Bounds of the model.                                                    *)
(***************************************************************************)
MaxZones == 2
MaxSubzones == 2
MaxLeaves == 2
MaxValLen == 4

(***************************************************************************)
(* Strings.                                                                *)
(***************************************************************************)
DQ == 34
BS == 92

RECURSIVE SeqsUpTo(_, _)
SeqsUpTo(S, n) ==
  IF n = 0 THEN {<<>>}
  ELSE LET shorter == SeqsUpTo(S, n - 1)
       IN shorter \cup {Append(s, x) : s \in {t \in shorter : Len(t) = n - 1}, x \in S}

RECURSIVE LexLess(_, _)
LexLess(a, b) ==
  IF b = <<>> THEN FALSE
  ELSE IF a = <<>> THEN TRUE
  ELSE IF Head(a) # Head(b) THEN Head(a) < Head(b)
  ELSE LexLess(Tail(a), Tail(b))

Range(s) == {s[i] : i \in DOMAIN s}

\* sorted(set(xs)): the distinct elements in increasing code-point order
RECURSIVE SortSet(_)
SortSet(S) ==
  IF S = {} THEN <<>>
  ELSE LET m == CHOOSE x \in S : \A y \in S \ {x} : LexLess(x, y)
       IN <<m>> \o SortSet(S \ {m})

sorted_set(xs) == SortSet(Range(xs))

\* dict.get(key, default) on an optional key
Get(opt, default) == IF opt = <<>> THEN default ELSE opt[1]

\* what the iterations of a for loop append, one after the other
RECURSIVE Concat(_)
Concat(ss) == IF ss = <<>> THEN <<>> ELSE Head(ss) \o Concat(Tail(ss))

(***************************************************************************)
(* format_tokens: str.format with keyword arguments kw.  A replacement     *)
(* field whose name is not among them raises KeyError; surplus keyword     *)
(* arguments are ignored.                                                  *)
(***************************************************************************)
Lit(s) == [fld |-> "", lit |-> s]
Fld(n) == [fld |-> n, lit |-> <<>>]

Placeholders == {"centralId", "zone", "subzone", "leafId", "zoneForCentralAttachedLeaves"}

PlaceholderText(n) ==
  CASE n = "centralId" -> <<123, 99, 101, 110, 116, 114, 97, 108, 73, 100, 125>>
    [] n = "zone" -> <<123, 122, 111, 110, 101, 125>>
    [] n = "subzone" -> <<123, 115, 117, 98, 122, 111, 110, 101, 125>>
    [] n = "leafId" -> <<123, 108, 101, 97, 102, 73, 100, 125>>
    [] OTHER -> <<123, 125>>

\* the text of a template with each field replaced; a field without a value
\* keeps its placeholder text (format_tokens raises before that can happen)
RECURSIVE Substitute(_, _)
Substitute(template, kw) ==
  IF template = <<>> THEN <<>>
  ELSE LET t == Head(template)
           piece == IF t.fld = "" THEN t.lit
                    ELSE IF t.fld \in DOMAIN kw THEN kw[t.fld]
                    ELSE PlaceholderText(t.fld)
       IN piece \o Substitute(Tail(template), kw)

Resolvable(template, kw) ==
  \A i \in DOMAIN template : template[i].fld = "" \/ template[i].fld \in DOMAIN kw

\* a mutant: an unresolvable field is left in place instead of raising
format_tokens_lenient(template, kw) ==
  [ok |-> TRUE, val |-> Substitute(template, kw)]

format_tokens(template, kw) ==
  IF Resolvable(template, kw)
  THEN [ok |-> TRUE, val |-> Substitute(template, kw)]
  ELSE [ok |-> FALSE, val |-> <<>>]

\* [format_tokens(s, kw...) for s in patterns]
FormatAll(patterns, kw) == [i \in DOMAIN patterns |-> format_tokens(patterns[i], kw)]

AllOk(results) == \A i \in DOMAIN results : results[i].ok

Vals(results) == [i \in DOMAIN results |-> results[i].val]

(***************************************************************************)
(* expand_role_users.  Each role operator builds one principal as the code *)
(* does, with exactly the keyword arguments the code passes; ok is FALSE   *)
(* when one of its format_tokens calls raises.                             *)
(***************************************************************************)
Roles == <<"relayCentral", "relayZone", "relaySubzone", "leafCentral", "leafZone", "leafSubzone">>

central_id(c) == c.topology.centralId
zone_central(c) == c.topology.defaults.zoneForCentralAttachedLeaves

RelayCentralUser(c) ==
  LET r == c.roles.relayCentral
      username == format_tokens(r.userTemplate, [centralId |-> central_id(c)])
      kw == [centralId |-> central_id(c), zoneForCentralAttachedLeaves |-> zone_central(c)]
      publish == FormatAll(r.publish, kw)
      subscribe == FormatAll(r.subscribe, kw)
  IN [ok |-> username.ok /\ AllOk(publish) /\ AllOk(subscribe),
      user |-> [username |-> username.val, role |-> "relayCentral",
                publish |-> Vals(publish), subscribe |-> Vals(subscribe)]]

RelayZoneUser(c, z) ==
  LET r == c.roles.relayZone
      kw == [centralId |-> central_id(c), zone |-> z]
      username == format_tokens(r.userTemplate, kw)
      publish == FormatAll(r.publish, kw)
      subscribe == FormatAll(r.subscribe, kw)
  IN [ok |-> username.ok /\ AllOk(publish) /\ AllOk(subscribe),
      user |-> [username |-> username.val, role |-> "relayZone", zone |-> z,
                publish |-> Vals(publish), subscribe |-> Vals(subscribe)]]

RelaySubzoneUser(c, z, sz) ==
  LET r == c.roles.relaySubzone
      kw == [centralId |-> central_id(c), zone |-> z, subzone |-> sz]
      username == format_tokens(r.userTemplate, kw)
      publish == FormatAll(r.publish, kw)
      subscribe == FormatAll(r.subscribe, kw)
  IN [ok |-> username.ok /\ AllOk(publish) /\ AllOk(subscribe),
      user |-> [username |-> username.val, role |-> "relaySubzone", zone |-> z, subzone |-> sz,
                publish |-> Vals(publish), subscribe |-> Vals(subscribe)]]

LeafCentralUser(c, leaf) ==
  LET r == c.roles.leafCentral
      kw == [centralId |-> central_id(c), zoneForCentralAttachedLeaves |-> zone_central(c),
             leafId |-> leaf]
      username == format_tokens(r.userTemplate, kw)
      publish == FormatAll(r.publish, kw)
      subscribe == FormatAll(r.subscribe, kw)
  IN [ok |-> username.ok /\ AllOk(publish) /\ AllOk(subscribe),
      user |-> [username |-> username.val, role |-> "leafCentral", zone |-> zone_central(c),
                leafId |-> leaf,
                publish |-> Vals(publish), subscribe |-> Vals(subscribe)]]

LeafZoneUser(c, z, leaf) ==
  LET r == c.roles.leafZone
      kw == [centralId |-> central_id(c), zone |-> z, leafId |-> leaf]
      username == format_tokens(r.userTemplate, kw)
      publish == FormatAll(r.publish, kw)
      subscribe == FormatAll(r.subscribe, kw)
  IN [ok |-> username.ok /\ AllOk(publish) /\ AllOk(subscribe),
      user |-> [username |-> username.val, role |-> "leafZone", zone |-> z, leafId |-> leaf,
                publish |-> Vals(publish), subscribe |-> Vals(subscribe)]]

LeafSubzoneUser(c, z, sz, leaf) ==
  LET r == c.roles.leafSubzone
      kw == [centralId |-> central_id(c), zone |-> z, subzone |-> sz, leafId |-> leaf]
      username == format_tokens(r.userTemplate, kw)
      publish == FormatAll(r.publish, kw)
      subscribe == FormatAll(r.subscribe, kw)
  IN [ok |-> username.ok /\ AllOk(publish) /\ AllOk(subscribe),
      user |-> [username |-> username.val, role |-> "leafSubzone", zone |-> z, subzone |-> sz,
                leafId |-> leaf,
                publish |-> Vals(publish), subscribe |-> Vals(subscribe)]]

\* the six loops, in the order the code runs them
RelayCentralUsers(c) == <<RelayCentralUser(c)>>

RelayZoneUsers(c) ==
  LET zones == c.topology.zones
  IN Concat([i \in DOMAIN zones |-> <<RelayZoneUser(c, zones[i])>>])

RelaySubzoneUsers(c) ==
  LET zones == c.topology.zones
      subzones == c.topology.subzonesPerZone
  IN Concat([i \in DOMAIN zones |->
       Concat([j \in DOMAIN subzones |-> <<RelaySubzoneUser(c, zones[i], subzones[j])>>])])

\* a mutant: the central-attached leaves are expanded inside a loop over the zones
LeafCentralUsers_perZone(c) ==
  LET zones == c.topology.zones
      leaves == c.topology.leavesPerAttachment
  IN Concat([i \in DOMAIN zones |->
       Concat([k \in DOMAIN leaves |-> <<LeafCentralUser(c, leaves[k])>>])])

LeafCentralUsers(c) ==
  LET leaves == c.topology.leavesPerAttachment
  IN Concat([k \in DOMAIN leaves |-> <<LeafCentralUser(c, leaves[k])>>])

\* a mutant: the two loops are nested the other way round (leaf outermost)
LeafZoneUsers_leafMajor(c) ==
  LET zones == c.topology.zones
      leaves == c.topology.leavesPerAttachment
  IN Concat([k \in DOMAIN leaves |->
       Concat([i \in DOMAIN zones |-> <<LeafZoneUser(c, zones[i], leaves[k])>>])])

LeafZoneUsers(c) ==
  LET zones == c.topology.zones
      leaves == c.topology.leavesPerAttachment
  IN Concat([i \in DOMAIN zones |->
       Concat([k \in DOMAIN leaves |-> <<LeafZoneUser(c, zones[i], leaves[k])>>])])

LeafSubzoneUsers(c) ==
  LET zones == c.topology.zones
      subzones == c.topology.subzonesPerZone
      leaves == c.topology.leavesPerAttachment
  IN Concat([i \in DOMAIN zones |->
       Concat([j \in DOMAIN subzones |->
         Concat([k \in DOMAIN leaves |->
           <<LeafSubzoneUser(c, zones[i], subzones[j], leaves[k])>>])])])

\* the returned list, or ok = FALSE when a format_tokens call raised KeyError
expand_role_users(c) ==
  LET built == RelayCentralUsers(c) \o RelayZoneUsers(c) \o RelaySubzoneUsers(c)
                 \o LeafCentralUsers(c) \o LeafZoneUsers(c) \o LeafSubzoneUsers(c)
  IN IF AllOk(built)
     THEN [ok |-> TRUE, users |-> [i \in DOMAIN built |-> built[i].user]]
     ELSE [ok |-> FALSE, users |-> <<>>]

(***************************************************************************)
(* build_nats_authz: the configuration it reads.                           *)
(***************************************************************************)
NoAuth == [enforcePermissions |-> <<>>, passwordPrefix |-> <<>>, admin |-> <<>>,
           jsClientInternal |-> <<>>]
NoAdmin == [username |-> <<>>, password |-> <<>>, publishAllow |-> <<>>, subscribeAllow |-> <<>>]
NoJs == [publishAllow |-> <<>>, subscribeAllow |-> <<>>]

auth_cfg(c) == Get(c.auth, NoAuth)
enforce(c) == Get(auth_cfg(c).enforcePermissions, TRUE)
pwd_prefix(c) == Get(auth_cfg(c).passwordPrefix, <<112, 119, 100, 95>>)
admin(c) == Get(auth_cfg(c).admin, NoAdmin)
js_pub(c) == Get(Get(auth_cfg(c).jsClientInternal, NoJs).publishAllow, <<>>)
js_sub(c) == Get(Get(auth_cfg(c).jsClientInternal, NoJs).subscribeAllow, <<>>)

\* a mutant: only an absent key is refused, an empty string passes
AdminMissing_absentOnly(c) == admin(c).username = <<>> \/ admin(c).password = <<>>

\* not admin.get("username") or not admin.get("password"): absent or empty
AdminMissing(c) ==
  Get(admin(c).username, <<>>) = <<>> \/ Get(admin(c).password, <<>>) = <<>>

\* a mutant: the admin lists go through the same merge as the other principals
AdminEntry_merged(c) ==
  [user |-> admin(c).username[1], password |-> admin(c).password[1],
   permissions |->
     [publish |-> [allow |-> sorted_set(Get(admin(c).publishAllow, <<<<62>>>>) \o js_pub(c))],
      subscribe |-> [allow |-> sorted_set(Get(admin(c).subscribeAllow, <<<<62>>>>) \o js_sub(c))]]]

AdminEntry(c) ==
  [user |-> admin(c).username[1], password |-> admin(c).password[1],
   permissions |->
     [publish |-> [allow |-> Get(admin(c).publishAllow, <<<<62>>>>)],
      subscribe |-> [allow |-> Get(admin(c).subscribeAllow, <<<<62>>>>)]]]

AdminEntryBare(c) == [user |-> admin(c).username[1], password |-> admin(c).password[1]]

\* a mutant: the internal subjects are not merged in
AllowList_roleOnly(subjects, internal) == sorted_set(subjects)

\* sorted(set(u[...] + js_...))
AllowList(subjects, internal) == sorted_set(subjects \o internal)

\* a mutant: the prefix is left out
Password_bare(c, username) == username

\* f"{pwd_prefix}{username}"
Password(c, username) == pwd_prefix(c) \o username

UserEntry(c, u) ==
  [user |-> u.username, password |-> Password(c, u.username),
   permissions |->
     [publish |-> [allow |-> AllowList(u.publish, js_pub(c))],
      subscribe |-> [allow |-> AllowList(u.subscribe, js_sub(c))]]]

UserEntryBare(c, u) == [user |-> u.username, password |-> Password(c, u.username)]

\* the users list when expansion returned us
BuildUsers(c, us) ==
  IF enforce(c)
  THEN <<AdminEntry(c)>> \o [i \in DOMAIN us |-> UserEntry(c, us[i])]
  ELSE <<AdminEntryBare(c)>> \o [i \in DOMAIN us |-> UserEntryBare(c, us[i])]

(***************************************************************************)
(* build_nats_authz: serialization.  A line is its fixed text, the text    *)
(* computed from a value (code points) and the fixed text after it.        *)
(***************************************************************************)
RECURSIVE EscapeQuotes(_)
EscapeQuotes(v) ==
  IF v = <<>> THEN <<>>
  ELSE (IF Head(v) = DQ THEN <<BS, DQ>> ELSE <<Head(v)>>) \o EscapeQuotes(Tail(v))

q(v) == <<DQ>> \o EscapeQuotes(v) \o <<DQ>>

\* ", ".join(q(s) for s in allow)
RECURSIVE JoinQuoted(_)
JoinQuoted(allow) ==
  IF allow = <<>> THEN <<>>
  ELSE IF Len(allow) = 1 THEN q(allow[1])
  ELSE q(Head(allow)) \o <<44, 32>> \o JoinQuoted(Tail(allow))

Line(text, arg, tail) == [text |-> text, arg |-> arg, tail |-> tail]

PermissionLines(user) ==
  << Line("      permissions = {", <<>>, ""),
     Line("        publish = {", <<>>, ""),
     Line("          allow = [", JoinQuoted(user.permissions.publish.allow), "]"),
     Line("        }", <<>>, ""),
     Line("        subscribe = {", <<>>, ""),
     Line("          allow = [", JoinQuoted(user.permissions.subscribe.allow), "]"),
     Line("        }", <<>>, ""),
     Line("      }", <<>>, "") >>

\* a mutant: the block is emitted for whoever has a permissions key, and the
\* admin entry is given the wildcard block in both modes
EntryLines_adminAlways(c, us, idx) ==
  LET user == us[idx]
      perms == IF "permissions" \in DOMAIN user THEN PermissionLines(user)
               ELSE IF idx = 1
               THEN PermissionLines([permissions |->
                      [publish |-> [allow |-> <<<<62>>>>], subscribe |-> [allow |-> <<<<62>>>>]]])
               ELSE <<>>
  IN << Line("    {", <<>>, ""),
        Line("      user = ", q(user.user), ""),
        Line("      password = ", q(user.password), "") >>
     \o perms
     \o << Line("    }", <<>>, IF idx < Len(us) THEN "," ELSE "") >>

\* one iteration of the loop over enumerate(users); idx counts from 1 here
EntryLines(c, us, idx) ==
  LET user == us[idx]
  IN << Line("    {", <<>>, ""),
        Line("      user = ", q(user.user), ""),
        Line("      password = ", q(user.password), "") >>
     \o (IF enforce(c) THEN PermissionLines(user) ELSE <<>>)
     \o << Line("    }", <<>>, IF idx < Len(us) THEN "," ELSE "") >>

Render(c, us) ==
  << Line("authorization {", <<>>, ""), Line("  users = [", <<>>, "") >>
  \o Concat([idx \in DOMAIN us |-> EntryLines(c, us, idx)])
  \o << Line("  ]", <<>>, ""), Line("}", <<>>, "") >>

(***************************************************************************)
(* The configuration documents the model runs on.                          *)
(***************************************************************************)
CentralId == <<99>>                      \* "c"
ZoneCentral == <<122, 48>>               \* "z0"
ZoneIds == {<<122, 49>>, <<122, 50>>}    \* "z1", "z2"
SubzoneIds == {<<115, 49>>, <<115, 50>>} \* "s1", "s2"
LeafIds == {<<108, 49>>, <<108, 50>>}    \* "l1", "l2"

Topology(zs, ss, ls) ==
  [centralId |-> CentralId, zones |-> zs, subzonesPerZone |-> ss, leavesPerAttachment |-> ls,
   defaults |-> [zoneForCentralAttachedLeaves |-> ZoneCentral]]

\* every list over the identifiers, duplicates and any order included
Topologies ==
  {Topology(zs, ss, ls) : zs \in SeqsUpTo(ZoneIds, MaxZones),
                          ss \in SeqsUpTo(SubzoneIds, MaxSubzones),
                          ls \in SeqsUpTo(LeafIds, MaxLeaves)}

\* each level empty or with one identifier
SmallTopologies ==
  {Topology(zs, ss, ls) : zs \in {<<>>, <<<<122, 49>>>>}, ss \in {<<>>, <<<<115, 49>>>>},
                          ls \in {<<>>, <<<<108, 49>>>>}}

SampleTopologies ==
  {Topology(<<>>, <<>>, <<>>),
   Topology(<<<<122, 50>>, <<122, 49>>>>, <<<<115, 49>>>>, <<<<108, 49>>>>)}

Dot == Lit(<<46>>)
Up == Lit(<<117, 112, 46>>)   \* "up."
Dn == Lit(<<100, 110, 46>>)   \* "dn."

\* role templates whose usernames differ whenever the positions differ;
\* subject lists are unsorted, with repeats and with a subject that is also
\* an internal one
GoodRoles ==
  [relayCentral |->
     [userTemplate |-> <<Lit(<<114, 46>>), Fld("centralId")>>,
      publish |-> << <<Up, Fld("centralId")>>, <<Dn, Fld("zoneForCentralAttachedLeaves")>>,
                     <<Up, Fld("centralId")>> >>,
      subscribe |-> << <<Up, Fld("centralId")>> >>],
   relayZone |->
     [userTemplate |-> <<Lit(<<114, 46>>), Fld("zone")>>,
      publish |-> << <<Up, Fld("centralId")>>, <<Dn, Fld("zone")>> >>,
      subscribe |-> << <<Up, Fld("zone")>> >>],
   relaySubzone |->
     [userTemplate |-> <<Lit(<<114, 46>>), Fld("zone"), Dot, Fld("subzone")>>,
      publish |-> << <<Up, Fld("zone")>> >>,
      subscribe |-> << <<Dn, Fld("zone"), Dot, Fld("subzone")>>, <<Dn, Fld("zone")>>,
                       <<Dn, Fld("zone"), Dot, Fld("subzone")>> >>],
   leafCentral |->
     [userTemplate |-> <<Lit(<<108, 46>>), Fld("zoneForCentralAttachedLeaves"), Dot, Fld("leafId")>>,
      publish |-> << <<Up, Fld("centralId")>> >>,
      subscribe |-> << <<Dn, Fld("leafId")>> >>],
   leafZone |->
     [userTemplate |-> <<Lit(<<108, 46>>), Fld("zone"), Dot, Fld("leafId")>>,
      publish |-> << <<Up, Fld("zone")>>, <<Up, Fld("centralId")>> >>,
      subscribe |-> << <<Dn, Fld("zone"), Dot, Fld("leafId")>> >>],
   leafSubzone |->
     [userTemplate |-> <<Lit(<<108, 46>>), Fld("zone"), Dot, Fld("subzone"), Dot, Fld("leafId")>>,
      publish |-> << <<Up, Fld("zone"), Dot, Fld("subzone")>> >>,
      subscribe |-> << >>]]

\* the leafZone username pattern forgets the leaf: it is the relayZone pattern
CollidingRoles ==
  [GoodRoles EXCEPT !.leafZone.userTemplate = <<Lit(<<114, 46>>), Fld("zone")>>]

Fields == {"userTemplate", "publish", "subscribe"}

\* GoodRoles with one more reference to placeholder ph in field f of role r
WithReference(r, f, ph) ==
  IF f = "userTemplate"
  THEN [GoodRoles EXCEPT ![r].userTemplate = Append(@, Fld(ph))]
  ELSE [GoodRoles EXCEPT ![r][f] = Append(@, <<Lit(<<120, 46>>), Fld(ph)>>)]

ReferencingRoles ==
  {WithReference(r, f, ph) : r \in Range(Roles), f \in Fields, ph \in Placeholders}

AdminName == <<97, 100, 109>>   \* "adm"
AdminPw == <<112, 34, 119>>     \* p"w

Admins ==
  {<<>>} \cup
  {<<[username |-> u, password |-> p, publishAllow |-> a[1], subscribeAllow |-> a[2]]>> :
     u \in {<<>>, <<<<>>>>, <<AdminName>>},
     p \in {<<>>, <<<<>>>>, <<AdminPw>>},
     a \in { <<<<>>, <<>>>>,
             << << <<<<98>>, <<97>>, <<98>>>> >>, <<>> >>,
             << << <<>> >>, << <<<<97>>>> >> >> }}

JsInternals ==
  { <<>>,
    <<[publishAllow |-> <<>>, subscribeAllow |-> << <<<<95, 73>>>> >>]>>,
    <<[publishAllow |-> << <<<<117, 112, 46, 99>>, <<36, 74>>, <<117, 112, 46, 122, 49>>>> >>,
       subscribeAllow |-> << <<<<95, 73>>, <<36, 74>>, <<95, 73>>>> >>]>> }

Auths ==
  {<<>>} \cup
  {<<[enforcePermissions |-> e, passwordPrefix |-> pp, admin |-> a, jsClientInternal |-> js]>> :
     e \in {<<>>, <<TRUE>>, <<FALSE>>},
     pp \in {<<>>, <<<<120, 95>>>>},
     a \in Admins,
     js \in JsInternals}

\* enforcement by default, admin with default lists, both internal lists
DefaultAuth ==
  <<[enforcePermissions |-> <<>>, passwordPrefix |-> <<>>,
     admin |-> <<[username |-> <<AdminName>>, password |-> <<AdminPw>>,
                  publishAllow |-> <<>>, subscribeAllow |-> <<>>]>>,
     jsClientInternal |->
       <<[publishAllow |-> << <<<<117, 112, 46, 99>>, <<36, 74>>, <<117, 112, 46, 122, 49>>>> >>,
          subscribeAllow |-> << <<<<95, 73>>, <<36, 74>>, <<95, 73>>>> >>]>>]>>

Config(t, r, a) == [topology |-> t, roles |-> r, auth |-> a]

\* every topology, with the well-formed role templates; the colliding
\* templates and every placement of a placeholder reference, on the small
\* topologies; every auth section, on two topologies
Configs ==
  {Config(t, GoodRoles, DefaultAuth) : t \in Topologies}
  \cup {Config(t, r, DefaultAuth) : t \in SmallTopologies,
                                    r \in ReferencingRoles \cup {CollidingRoles}}
  \cup {Config(t, GoodRoles, a) : t \in SampleTopologies, a \in Auths}

(***************************************************************************)
(* main(): the commands users and nats-authz.                              *)
(***************************************************************************)
Init ==
  /\ cfg \in Configs
  /\ cmd \in {"users", "nats-authz"}
  /\ pc = "main"
  /\ exc = "none"
  /\ principals = <<>>
  /\ users = <<>>
  /\ out = <<>>
  /\ val = <<>>
  /\ lit = <<>>

\* users = expand_role_users(cfg)
UsersExpand ==
  /\ pc = "main" /\ cmd = "users"
  /\ LET r == expand_role_users(cfg)
     IN IF r.ok
        THEN /\ principals' = r.users
             /\ pc' = "print"
             /\ exc' = exc
        ELSE /\ principals' = principals
             /\ pc' = "error"
             /\ exc' = "KeyError"
  /\ UNCHANGED <<cfg, cmd, users, out, val, lit>>

\* for u in users: print(u["username"])
UsersPrint ==
  /\ pc = "print"
  /\ out' = [i \in DOMAIN principals |-> Line("", principals[i].username, "")]
  /\ pc' = "done"
  /\ UNCHANGED <<cfg, cmd, exc, principals, users, val, lit>>

\* build_nats_authz up to the admin check
AuthzCheckAdmin ==
  /\ pc = "main" /\ cmd = "nats-authz"
  /\ IF AdminMissing(cfg)
     THEN pc' = "error" /\ exc' = "ValueError"
     ELSE pc' = "build" /\ exc' = exc
  /\ UNCHANGED <<cfg, cmd, principals, users, out, val, lit>>

\* the admin entry, then one entry per principal expand_role_users returns
AuthzBuildUsers ==
  /\ pc = "build"
  /\ LET r == expand_role_users(cfg)
     IN IF r.ok
        THEN /\ principals' = r.users
             /\ users' = BuildUsers(cfg, r.users)
             /\ pc' = "render"
             /\ exc' = exc
        ELSE /\ principals' = principals
             /\ users' = BuildUsers(cfg, <<>>)
             /\ pc' = "error"
             /\ exc' = "KeyError"
  /\ UNCHANGED <<cfg, cmd, out, val, lit>>

\* the lines of the block, printed by main()
AuthzRender ==
  /\ pc = "render"
  /\ out' = Render(cfg, users)
  /\ pc' = "done"
  /\ UNCHANGED <<cfg, cmd, exc, principals, users, val, lit>>

Next == UsersExpand \/ UsersPrint \/ AuthzCheckAdmin \/ AuthzBuildUsers \/ AuthzRender

Spec == Init /\ [][Next]_vars

(***************************************************************************)
(* The quoting function q on its own, over every short value.              *)
(***************************************************************************)
ValChars == {97, DQ, BS}

InitQ ==
  /\ val \in SeqsUpTo(ValChars, MaxValLen)
  /\ lit = <<>>
  /\ pc = "quote"
  /\ cmd = "q"
  /\ cfg = <<>>
  /\ exc = "none"
  /\ principals = <<>>
  /\ users = <<>>
  /\ out = <<>>

Quote ==
  /\ pc = "quote"
  /\ lit' = q(val)
  /\ pc' = "quoted"
  /\ UNCHANGED <<cfg, cmd, exc, principals, users, out, val>>

NextQ == Quote

SpecQ == InitQ /\ [][NextQ]_vars

(***************************************************************************)
(* Properties.                                                             *)
(***************************************************************************)
zones == cfg.topology.zones
subzones == cfg.topology.subzonesPerZone
leaves == cfg.topology.leavesPerAttachment
Z == Len(zones)
S == Len(subzones)
L == Len(leaves)

\* expand_role_users has returned: principals holds its list
Expanded == pc \in {"print", "render", "done"}

\* build_nats_authz has built its users list
Built == cmd = "nats-authz" /\ pc \in {"render", "done"}

Rendered == cmd = "nats-authz" /\ pc = "done"

IndicesOf(role) == {i \in DOMAIN principals : principals[i].role = role}
CountRole(role) == Cardinality(IndicesOf(role))

\* C1: a successful expansion returns 1 + Z + Z*S + L + Z*L + Z*S*L principals:
\* 1 relayCentral, Z relayZone, Z*S relaySubzone, L leafCentral, Z*L leafZone
\* and Z*S*L leafSubzone, zero lengths included.
C1_Cardinality ==
  Expanded =>
    /\ Len(principals) = 1 + Z + Z * S + L + Z * L + Z * S * L
    /\ CountRole("relayCentral") = 1
    /\ CountRole("relayZone") = Z
    /\ CountRole("relaySubzone") = Z * S
    /\ CountRole("leafCentral") = L
    /\ CountRole("leafZone") = Z * L
    /\ CountRole("leafSubzone") = Z * S * L

C1_Witness == Expanded /\ Z = 2 /\ S = 0 /\ L = 2 /\ Len(principals) = 9

Rank(role) == CHOOSE n \in DOMAIN Roles : Roles[n] = role

\* 0-based position of principal i among the principals of its role
PosInRole(i) ==
  i - (CHOOSE m \in IndicesOf(principals[i].role) :
         \A n \in IndicesOf(principals[i].role) : m <= n)

InListOrder(i) ==
  LET p == principals[i]
      k == PosInRole(i)
  IN CASE p.role = "relayCentral" -> k = 0
       [] p.role = "relayZone" -> p.zone = zones[k + 1]
       [] p.role = "relaySubzone" ->
            p.zone = zones[(k \div S) + 1] /\ p.subzone = subzones[(k % S) + 1]
       [] p.role = "leafCentral" -> p.leafId = leaves[k + 1]
       [] p.role = "leafZone" ->
            p.zone = zones[(k \div L) + 1] /\ p.leafId = leaves[(k % L) + 1]
       [] p.role = "leafSubzone" ->
            /\ p.zone = zones[(k \div (S * L)) + 1]
            /\ p.subzone = subzones[((k \div L) % S) + 1]
            /\ p.leafId = leaves[(k % L) + 1]

ZoneLeafPairs ==
  LET lz == SelectSeq(principals, LAMBDA p : p.role = "leafZone")
  IN [i \in DOMAIN lz |-> <<lz[i].zone, lz[i].leafId, lz[i].username>>]

\* C2: the returned list is ordered by role category (relayCentral, relayZone,
\* relaySubzone, leafCentral, leafZone, leafSubzone); within a category the
\* principals follow the topology's lists as written, zone outermost, subzone
\* next, leaf innermost; zones [z1, z2] with the single leaf l1 give the
\* leafZone principals of (z1, l1) then (z2, l1).
C2_Ordering ==
  Expanded =>
    /\ \A i, j \in DOMAIN principals :
         i < j => Rank(principals[i].role) <= Rank(principals[j].role)
    /\ \A i \in DOMAIN principals : InListOrder(i)
    /\ (zones = <<<<122, 49>>, <<122, 50>>>> /\ leaves = <<<<108, 49>>>>
        /\ cfg.roles = GoodRoles) =>
          ZoneLeafPairs = << <<<<122, 49>>, <<108, 49>>, <<108, 46, 122, 49, 46, 108, 49>>>>,
                             <<<<122, 50>>, <<108, 49>>, <<108, 46, 122, 50, 46, 108, 49>>>> >>

C2_Witness ==
  /\ Expanded
  /\ zones = <<<<122, 50>>, <<122, 49>>>>
  /\ subzones = <<<<115, 50>>, <<115, 49>>>>
  /\ leaves = <<<<108, 50>>, <<108, 49>>>>

RECURSIVE Contains(_, _)
Contains(s, ch) == s # <<>> /\ (Head(s) = ch \/ Contains(Tail(s), ch))

References(role) ==
  LET r == cfg.roles[role]
      pats == <<r.userTemplate>> \o r.publish \o r.subscribe
  IN UNION {{pats[i][j].fld : j \in DOMAIN pats[i]} : i \in DOMAIN pats} \ {""}

\* the placeholders of a role's attachment level
Available(role) ==
  {"centralId"}
  \cup (IF role \in {"relayCentral", "leafCentral"} THEN {"zoneForCentralAttachedLeaves"} ELSE {})
  \cup (IF role \in {"relayZone", "relaySubzone", "leafZone", "leafSubzone"} THEN {"zone"} ELSE {})
  \cup (IF role \in {"relaySubzone", "leafSubzone"} THEN {"subzone"} ELSE {})
  \cup (IF role \in {"leafCentral", "leafZone", "leafSubzone"} THEN {"leafId"} ELSE {})

Instantiated(role) ==
  CASE role = "relayCentral" -> TRUE
    [] role = "relayZone" -> Z >= 1
    [] role = "relaySubzone" -> Z >= 1 /\ S >= 1
    [] role = "leafCentral" -> L >= 1
    [] role = "leafZone" -> Z >= 1 /\ L >= 1
    [] role = "leafSubzone" -> Z >= 1 /\ S >= 1 /\ L >= 1

UnavailableReference ==
  \E role \in Range(Roles) : Instantiated(role) /\ ~(References(role) \subseteq Available(role))

\* C6: when an instantiated role references a placeholder that its attachment
\* level does not have, expansion raises: no principal list is returned and no
\* configuration text is emitted; a successful expansion leaves no placeholder
\* text in a username or subject and keeps every pattern of the role.
C6_UnresolvablePlaceholderFails ==
  /\ UnavailableReference =>
       /\ ~Expanded
       /\ principals = <<>>
       /\ out = <<>>
       /\ (exc = "none" => pc \in {"main", "build"})
  /\ Expanded =>
       \A i \in DOMAIN principals :
         LET p == principals[i]
         IN /\ ~Contains(p.username, 123)
            /\ \A k \in DOMAIN p.publish : ~Contains(p.publish[k], 123)
            /\ \A k \in DOMAIN p.subscribe : ~Contains(p.subscribe[k], 123)
            /\ Len(p.publish) = Len(cfg.roles[p.role].publish)
            /\ Len(p.subscribe) = Len(cfg.roles[p.role].subscribe)

C6_Witness ==
  /\ cmd = "nats-authz" /\ pc = "error" /\ exc = "KeyError"
  /\ Z = 1 /\ "subzone" \in References("relayZone")

\* C7: no two principals of a successful expansion have the same username, so
\* no two entries of the rendered users list have the same user.
C7_UniqueUsernames ==
  /\ Expanded =>
       \A i, j \in DOMAIN principals :
         i # j => principals[i].username # principals[j].username
  /\ Built =>
       \A i, j \in DOMAIN users : i # j => users[i].user # users[j].user

StrictlyIncreasing(a) == \A i \in 1..(Len(a) - 1) : LexLess(a[i], a[i + 1])

\* what the document configures, read without the renderer's helpers
ConfiguredAuth == IF cfg.auth = <<>> THEN NoAuth ELSE cfg.auth[1]
ConfiguredAdmin == IF ConfiguredAuth.admin = <<>> THEN NoAdmin ELSE ConfiguredAuth.admin[1]
ConfiguredJs ==
  IF ConfiguredAuth.jsClientInternal = <<>> THEN NoJs ELSE ConfiguredAuth.jsClientInternal[1]
ConfiguredJsPub == IF ConfiguredJs.publishAllow = <<>> THEN <<>> ELSE ConfiguredJs.publishAllow[1]
ConfiguredJsSub == IF ConfiguredJs.subscribeAllow = <<>> THEN <<>> ELSE ConfiguredJs.subscribeAllow[1]
EnforcementOff == ConfiguredAuth.enforcePermissions = <<FALSE>>
EnforcementOn == ~EnforcementOff

\* the lines of entry k of the rendered list (k = 1 is the admin entry)
EntrySize == IF EnforcementOn THEN 12 ELSE 4
EntryLine(k, n) == out[2 + (k - 1) * EntrySize + n]

\* C3: with enforcement on, each non-admin entry's publish allow-list is
\* strictly increasing in code-point order and its elements are exactly the
\* principal's resolved publish subjects together with the configured internal
\* publish subjects; the same for subscribe; the rendered allow lines hold
\* these lists.
C3_AllowListClosure ==
  (Built /\ EnforcementOn) =>
    \A i \in DOMAIN principals :
      LET pub == users[i + 1].permissions.publish.allow
          sub == users[i + 1].permissions.subscribe.allow
      IN /\ StrictlyIncreasing(pub)
         /\ Range(pub) = Range(principals[i].publish) \cup Range(ConfiguredJsPub)
         /\ StrictlyIncreasing(sub)
         /\ Range(sub) = Range(principals[i].subscribe) \cup Range(ConfiguredJsSub)
         /\ Rendered =>
              /\ EntryLine(i + 1, 6) = Line("          allow = [", JoinQuoted(pub), "]")
              /\ EntryLine(i + 1, 9) = Line("          allow = [", JoinQuoted(sub), "]")

\* the relayCentral principal repeats a publish subject that is also internal
C3_Witness ==
  /\ Rendered /\ EnforcementOn /\ Z = 2
  /\ ConfiguredJsPub = <<<<117, 112, 46, 99>>, <<36, 74>>, <<117, 112, 46, 122, 49>>>>
  /\ users[2].permissions.publish.allow
       = <<<<36, 74>>, <<100, 110, 46, 122, 48>>, <<117, 112, 46, 99>>, <<117, 112, 46, 122, 49>>>>

HasPermissionsText(line) ==
  line.text \in {"      permissions = {", "        publish = {", "        subscribe = {",
                 "          allow = ["}

\* C4: with enforcement off every rendered entry, the admin entry included, is
\* exactly a user line and a password line between its braces and no line of
\* the text belongs to a permissions block; with enforcement on every entry,
\* the admin entry included, carries a permissions block.
C4_ModeToggle ==
  Rendered =>
    /\ Len(out) = 4 + EntrySize * Len(users)
    /\ \A k \in DOMAIN users :
         /\ EntryLine(k, 1).text = "    {"
         /\ EntryLine(k, 2).text = "      user = "
         /\ EntryLine(k, 3).text = "      password = "
         /\ EntryLine(k, EntrySize).text = "    }"
         /\ EnforcementOn =>
              /\ DOMAIN users[k] = {"user", "password", "permissions"}
              /\ EntryLine(k, 4).text = "      permissions = {"
              /\ EntryLine(k, 6).text = "          allow = ["
              /\ EntryLine(k, 9).text = "          allow = ["
              /\ EntryLine(k, 11).text = "      }"
         /\ EnforcementOff => DOMAIN users[k] = {"user", "password"}
    /\ EnforcementOff => \A n \in DOMAIN out : ~HasPermissionsText(out[n])

C4_Witness == Rendered /\ EnforcementOff /\ Len(users) = 11 /\ Len(out) = 48

IsMissing(opt) == opt = <<>> \/ opt = <<<<>>>>

AdminIncomplete ==
  \/ cfg.auth = <<>>
  \/ ConfiguredAuth.admin = <<>>
  \/ IsMissing(ConfiguredAdmin.username)
  \/ IsMissing(ConfiguredAdmin.password)

\* C5: when the admin block, its username or its password is absent or empty,
\* build_nats_authz raises before it expands a principal or emits a line, with
\* enforcement on and with enforcement off.
C5_AdminRequired ==
  (cmd = "nats-authz" /\ AdminIncomplete) =>
    /\ out = <<>>
    /\ users = <<>>
    /\ principals = <<>>
    /\ pc \in {"main", "error"}
    /\ (pc = "error" => exc = "ValueError")

C5_Witness ==
  /\ cmd = "nats-authz" /\ pc = "error" /\ exc = "ValueError"
  /\ EnforcementOff
  /\ ConfiguredAdmin.username = <<AdminName>> /\ ConfiguredAdmin.password = <<<<>>>>

\* C9: in both modes the first entry is the admin with the configured username
\* and password as they are; with enforcement on its allow-lists are the
\* configured admin lists as written (not merged with the internal subjects,
\* not sorted, not deduplicated), or the single wildcard ">" when not configured.
C9_AdminFirst ==
  Built =>
    /\ users[1].user = ConfiguredAdmin.username[1]
    /\ users[1].password = ConfiguredAdmin.password[1]
    /\ EnforcementOn =>
         /\ users[1].permissions.publish.allow =
              (IF ConfiguredAdmin.publishAllow = <<>> THEN <<<<62>>>>
               ELSE ConfiguredAdmin.publishAllow[1])
         /\ users[1].permissions.subscribe.allow =
              (IF ConfiguredAdmin.subscribeAllow = <<>> THEN <<<<62>>>>
               ELSE ConfiguredAdmin.subscribeAllow[1])
    /\ Rendered =>
         /\ EntryLine(1, 2) = Line("      user = ", q(ConfiguredAdmin.username[1]), "")
         /\ EntryLine(1, 3) = Line("      password = ", q(ConfiguredAdmin.password[1]), "")
         /\ EnforcementOn =>
              /\ EntryLine(1, 6) =
                   Line("          allow = [", JoinQuoted(users[1].permissions.publish.allow), "]")
              /\ EntryLine(1, 9) =
                   Line("          allow = [", JoinQuoted(users[1].permissions.subscribe.allow), "]")

C9_Witness ==
  /\ Rendered /\ EnforcementOn
  /\ ConfiguredAdmin.publishAllow = << <<<<98>>, <<97>>, <<98>>>> >>
  /\ ConfiguredAdmin.subscribeAllow = <<>>
  /\ ConfiguredJsSub # <<>>
  /\ users[1].permissions.publish.allow = <<<<98>>, <<97>>, <<98>>>>
  /\ users[1].permissions.subscribe.allow = <<<<62>>>>

ConfiguredPrefix ==
  IF ConfiguredAuth.passwordPrefix = <<>> THEN <<112, 119, 100, 95>>
  ELSE ConfiguredAuth.passwordPrefix[1]

\* C10: in both modes the users list is the admin entry followed by one entry
\* per expanded principal, in the expander's order; entry i+1 has principal
\* i's username as user and the configured prefix (default "pwd_") followed by
\* that username as password, and is rendered so.
C10_OneEntryPerPrincipal ==
  Built =>
    /\ Len(users) = 1 + Len(principals)
    /\ \A i \in DOMAIN principals :
         /\ users[i + 1].user = principals[i].username
         /\ users[i + 1].password = ConfiguredPrefix \o principals[i].username
    /\ Rendered =>
         /\ Len(out) = 4 + EntrySize * (1 + Len(principals))
         /\ \A i \in DOMAIN principals :
              /\ EntryLine(i + 1, 2) = Line("      user = ", q(principals[i].username), "")
              /\ EntryLine(i + 1, 3) =
                   Line("      password = ", q(ConfiguredPrefix \o principals[i].username), "")
              /\ EntryLine(i, EntrySize).tail = ","
         /\ EntryLine(1 + Len(principals), EntrySize).tail = ""

C10_Witness ==
  /\ Rendered /\ Len(principals) = 10
  /\ ConfiguredAuth.passwordPrefix = <<<<120, 95>>>>
  /\ users[2].password = <<120, 95, 114, 46, 99>>

Injective(list) == \A i, j \in DOMAIN list : i # j => list[i] # list[j]

\* the same for the topologies that name no identifier twice: violated too, by
\* role templates that resolve two positions to one username
UniqueUsernamesDistinctIds ==
  (Expanded /\ Injective(zones) /\ Injective(subzones) /\ Injective(leaves)) =>
    \A i, j \in DOMAIN principals :
      i # j => principals[i].username # principals[j].username

(***************************************************************************)
(* The string-literal rules of the configuration grammar: a literal opens  *)
(* with a double quote, a backslash takes the next character as it is, and *)
(* the first unescaped double quote ends it.                               *)
(***************************************************************************)
RECURSIVE ScanLiteral(_, _)
ScanLiteral(rest, acc) ==
  IF rest = <<>> THEN [ok |-> FALSE, val |-> acc]
  ELSE IF Head(rest) = DQ THEN [ok |-> Tail(rest) = <<>>, val |-> acc]
  ELSE IF Head(rest) = BS
       THEN IF Len(rest) < 2 THEN [ok |-> FALSE, val |-> acc]
            ELSE ScanLiteral(Tail(Tail(rest)), Append(acc, rest[2]))
  ELSE ScanLiteral(Tail(rest), Append(acc, Head(rest)))

Unquote(l) ==
  IF l = <<>> \/ Head(l) # DQ THEN [ok |-> FALSE, val |-> <<>>]
  ELSE ScanLiteral(Tail(l), <<>>)

\* C8: q wraps the value in double quotes with every embedded double quote
\* backslash-escaped, and for every value over ordinary characters, the double
\* quote and the backslash the literal reads back as the value.
C8_QuoteRoundTrip ==
  pc = "quoted" =>
    /\ Head(lit) = DQ /\ lit[Len(lit)] = DQ
    /\ Unquote(lit) = [ok |-> TRUE, val |-> val]

\* the same for the values that hold no backslash
QuoteRoundTripNoBackslash ==
  (pc = "quoted" /\ ~Contains(val, BS)) => Unquote(lit) = [ok |-> TRUE, val |-> val]

====
